---- MODULE Spec2Model ----
\* Prediction bot backend (leonelmoraless/bot-pronosticos): the webhook
\* command handlers, the recalculation pass, the scoring rule and the
\* leaderboard endpoint, over a
\* shared PostgreSQL store accessed through per-request SQLAlchemy sessions
\* (READ COMMITTED, expire_on_commit=False, autoflush=False).
\*
\* Every awaited database statement of a handler is one atomic step; the
\* Python code between two statements belongs to the step that precedes it.
\* A select sees the rows committed so far.  session.commit() sends the
\* INSERTs and UPDATEs of the unit of work and commits them in one
\* transaction; an UPDATE carries only the columns whose value differs from
\* the value the session loaded.
\*
\* Time is counted in days.  A string holding a number is a sequence of
\* decimal digits.  Python's None is the integer -1 (goal counts are never
\* negative: they come from int() of the pieces of "h-a".split('-')).
\* Message bodies are well formed, and a sender always carries the same
\* profile name, so get_or_create_user never renames.  The commands that
\* only read (!tabla, !perfil, !ayuda, !partidos, !anuncio) are not modelled.
\* A SELECT without ORDER BY returns its rows in any order.  The leaderboard
\* entry of a user carries the user's id in place of the name.
EXTENDS Integers, Sequences, FiniteSets, TLC

\* ---------------------------------------------------------------- bounds
MaxGoals == 1
MaxMatches == 1
MaxRequests == 3
MaxAdjustments == 1
MaxScoreGoals == 2

\* the inputs: senders' phone numbers, concurrent request sessions, goal
\* counts, days
Users == {1, 2}
Sessions == {"s1", "s2"}
Goals == 0..MaxGoals
Times == {0, 1}

\* ------------------------------------------------------- program constants
DefaultPrime == 5
DefaultRepechaje == 3
DefaultPoints == 0
SeedDays == 1
AdjPoints == {-2}

None == -1
NoRow == [absent |-> TRUE]

PENDING == "PENDING"
FINISHED == "FINISHED"
PRIME == "PRIME"
REPECHAJE == "REPECHAJE"
FAIL == "FAIL"

SeedConfig == {[key |-> "points_prime", value |-> <<5>>],
               [key |-> "points_repechaje", value |-> <<3>>]}

\* make_admin.py is run for the operator's phone number
AdminPhone == 1

VARIABLES
    now,          \* datetime.utcnow(), in days
    users,        \* table users: rows [id, is_admin]
    matches,      \* table matches: matches[id] = [match_date, goals_home, goals_away, status]
    predictions,  \* table predictions: rows [user_id, match_id, pred_home, pred_away, points, type]
    adjustments,  \* table score_adjustments, in id order: [user_id, points, reason, created_at]
    config,       \* table game_config: rows [key, value]
    sess,         \* per request session: position in the handler and the objects it loaded
    nreq,         \* number of requests received so far
    lastPass,     \* history: the match whose recalculation pass committed last, with no
                  \* row of matches, predictions or game_config changed since; else 0
    faulted,      \* history: some commit of a recalculation pass has raised
    ev,           \* harness for the scoring rule: inputs and output of one evaluation
    lb            \* the request GET /leaderboard-image: its position and what it has read

vars == <<now, users, matches, predictions, adjustments, config, sess, nreq, lastPass, faulted, ev, lb>>
db == <<users, matches, predictions, adjustments, config>>

\* ------------------------------------------------------------ pure helpers
RECURSIVE ParseInt(_)
\* int(str) of a decimal digit string
ParseInt(s) ==
    IF Len(s) = 0 THEN 0
    ELSE 10 * ParseInt(SubSeq(s, 1, Len(s) - 1)) + s[Len(s)]

\* dict.get(key, default) on the dict built by get_config_dict
DictGet(d, k, default) ==
    IF \E r \in d : r.key = k
    THEN ParseInt((CHOOSE r \in d : r.key = k).value)
    ELSE default

get_config_dict(table) == table

\* calculate_score with the direction cases tried before the exact case
calculate_score_direction_first(pred_home, pred_away, real_home, real_away, config_dict) ==
    LET points_prime == DictGet(config_dict, "points_prime", DefaultPrime)
        points_repechaje == DictGet(config_dict, "points_repechaje", DefaultRepechaje)
    IN  IF real_home > real_away /\ pred_home > pred_away THEN <<points_repechaje, REPECHAJE>>
        ELSE IF real_away > real_home /\ pred_away > pred_home THEN <<points_repechaje, REPECHAJE>>
        ELSE IF real_home = real_away /\ pred_home = pred_away THEN <<points_repechaje, REPECHAJE>>
        ELSE IF pred_home = real_home /\ pred_away = real_away THEN <<points_prime, PRIME>>
        ELSE <<0, FAIL>>

calculate_score(pred_home, pred_away, real_home, real_away, config_dict) ==
    LET points_prime == DictGet(config_dict, "points_prime", DefaultPrime)
        points_repechaje == DictGet(config_dict, "points_repechaje", DefaultRepechaje)
    IN  IF pred_home = real_home /\ pred_away = real_away
        THEN <<points_prime, PRIME>>
        ELSE IF real_home > real_away
        THEN (IF pred_home > pred_away THEN <<points_repechaje, REPECHAJE>> ELSE <<0, FAIL>>)
        ELSE IF real_away > real_home
        THEN (IF pred_away > pred_home THEN <<points_repechaje, REPECHAJE>> ELSE <<0, FAIL>>)
        ELSE (IF pred_home = pred_away THEN <<points_repechaje, REPECHAJE>> ELSE <<0, FAIL>>)

\* ------------------------------------------------------------ store helpers
HasUser(u) == \E r \in users : r.id = u
UserRow(u) == CHOOSE r \in users : r.id = u
HasMatch(m) == m \in 1..Len(matches)
PredsOf(u, m) == {r \in predictions : r.user_id = u /\ r.match_id = m}
PredsOfMatch(m) == {r \in predictions : r.match_id = m}

\* Prediction(user_id, match_id, pred_home, pred_away) with the column defaults
NewPrediction(u, m, h, a) ==
    [user_id |-> u, match_id |-> m, pred_home |-> h, pred_away |-> a,
     points |-> DefaultPoints, type |-> PENDING]

\* an UPDATE that puts the row back to unscored when its guess changes
UpdatePredictionResetting(dbrow, loaded, new) ==
    IF <<new.pred_home, new.pred_away>> # <<loaded.pred_home, loaded.pred_away>>
    THEN [dbrow EXCEPT !.pred_home = new.pred_home, !.pred_away = new.pred_away,
                       !.points = DefaultPoints, !.type = PENDING]
    ELSE [dbrow EXCEPT
             !.points = IF new.points # loaded.points THEN new.points ELSE @,
             !.type   = IF new.type # loaded.type THEN new.type ELSE @]

\* The UPDATE the unit of work emits for a loaded Prediction: only the
\* columns whose value differs from the loaded one are written, onto the row
\* that the primary key selects at flush time.
UpdatePrediction(dbrow, loaded, new) ==
    [dbrow EXCEPT
        !.pred_home = IF new.pred_home # loaded.pred_home THEN new.pred_home ELSE @,
        !.pred_away = IF new.pred_away # loaded.pred_away THEN new.pred_away ELSE @,
        !.points    = IF new.points # loaded.points THEN new.points ELSE @,
        !.type      = IF new.type # loaded.type THEN new.type ELSE @]

\* The same for a loaded Match.
UpdateMatch(dbrow, loaded, new) ==
    [dbrow EXCEPT
        !.goals_home = IF new.goals_home # loaded.goals_home THEN new.goals_home ELSE @,
        !.goals_away = IF new.goals_away # loaded.goals_away THEN new.goals_away ELSE @,
        !.status     = IF new.status # loaded.status THEN new.status ELSE @]

\* ----------------------------------------------------------------- sessions
\* pc: the statement to run next; cmd, user, at, mid, h, a: the request and
\* when it arrived; mobj, pobj, preds, cfg: the objects the session holds;
\* mold: the Match as it was loaded; out: the response.  History of a
\* recalculation pass: again (it followed a pass of the same match with no
\* change in between), fault (its commit raised), written (the rows whose
\* UPDATE had been sent when it raised).
Idle == [pc |-> "idle", cmd |-> "none", user |-> 0, at |-> 0, mid |-> 0, h |-> 0, a |-> 0,
         mobj |-> NoRow, mold |-> NoRow, pobj |-> NoRow,
         preds |-> {}, cfg |-> {}, out |-> "none",
         again |-> FALSE, fault |-> FALSE, written |-> {}]

\* The handler returns (or raises) with the response out; the objects of the
\* session are released.
Finished(r, out) ==
    [r EXCEPT !.pc = "done", !.out = out, !.mobj = NoRow, !.pobj = NoRow, !.cfg = {}]

\* lastPass after a commit that leaves the three tables as m2, p2, c2
PassAfter(m2, p2, c2) ==
    IF <<m2, p2, c2>> = <<matches, predictions, config>> THEN lastPass ELSE 0

Done(s, out) == sess' = [sess EXCEPT ![s] = Finished(sess[s], out)]
Goto(s, pc) == sess' = [sess EXCEPT ![s].pc = pc]

\* the scoring harness before an evaluation
NoEval == [ph |-> 0, pa |-> 0, rh |-> 0, ra |-> 0, cfg |-> {}, called |-> FALSE, res |-> <<0, PENDING>>]

\* ------------------------------------------------- GET /leaderboard-image
WeekDays == 7
MonthDays == 30
Periods == {"total", "semanal", "mensual"}

\* date_filter = None / now - timedelta(days=7) / now - timedelta(days=30)
NoFilter == [on |-> FALSE, from |-> 0]
date_filter(period, t) ==
    IF period = "semanal" THEN [on |-> TRUE, from |-> t - WeekDays]
    ELSE IF period = "mensual" THEN [on |-> TRUE, from |-> t - MonthDays]
    ELSE NoFilter

RECURSIVE func_sum(_)
\* SQL SUM over the rows of a group; f gives the summed column of each row
func_sum(f) ==
    IF DOMAIN f = {} THEN 0
    ELSE LET x == CHOOSE x \in DOMAIN f : TRUE
         IN  f[x] + func_sum([y \in DOMAIN f \ {x} |-> f[y]])

\* a statement that also sees the UPDATEs a pass in progress has sent so far
ReadUncommitted(table) ==
    {table} \cup
    UNION {{ {IF \E l \in w : l.user_id = r.user_id /\ l.match_id = r.match_id
              THEN LET sc == calculate_score(r.pred_home, r.pred_away,
                                             sess[s].mobj.goals_home, sess[s].mobj.goals_away,
                                             sess[s].cfg)
                   IN  [r EXCEPT !.points = sc[1], !.type = sc[2]]
              ELSE r : r \in table} : w \in SUBSET sess[s].preds }
           : s \in {t \in DOMAIN sess : sess[t].pc = "rc_commit"}}

\* the isolation level of the engine: a statement sees the committed rows
ReadCommitted(table) == {table}

\* the rows of select(...).join(Prediction.match) [.where(Match.match_date >= date_filter)]
join_where(table, ms, f) ==
    {r \in table : /\ r.match_id \in 1..Len(ms)
                   /\ f.on => ms[r.match_id].match_date >= f.from}

\* the rows (by id) of score_adjustments a statement with no WHERE sums
adj_where_all(adjs, f) == 1..Len(adjs)

\* the rows (by id) of select(...) [.where(ScoreAdjustment.created_at >= date_filter)]
adj_where(adjs, f) == {i \in 1..Len(adjs) : f.on => adjs[i].created_at >= f.from}

\* points_map = {row.user_id: row.total or 0} of func.sum(Prediction.points) GROUP BY user_id
stmt_preds(rows) ==
    [u \in {r.user_id : r \in rows} |->
        func_sum([r \in {x \in rows : x.user_id = u} |-> r.points])]

\* func.sum(ScoreAdjustment.points) GROUP BY user_id over the rows idx
stmt_adj(adjs, idx) ==
    [u \in {adjs[i].user_id : i \in idx} |->
        func_sum([i \in {j \in idx : adjs[j].user_id = u} |-> adjs[i].points])]

\* a merge in which the adjustments replace the prediction points
MergeAdjOverwrite(points_map, adj_map) ==
    [u \in DOMAIN points_map \cup DOMAIN adj_map |->
        IF u \in DOMAIN adj_map THEN adj_map[u] ELSE points_map[u]]

\* points_map[row.user_id] = points_map.get(row.user_id, 0) + (row.total or 0)
MergeAdj(points_map, adj_map) ==
    [u \in DOMAIN points_map \cup DOMAIN adj_map |->
        IF u \in DOMAIN adj_map
        THEN (IF u \in DOMAIN points_map THEN points_map[u] ELSE 0) + adj_map[u]
        ELSE points_map[u]]

\* select(User) with no WHERE
UsersAll(table, user_ids) == {r.id : r \in table}

\* select(User).where(User.id.in_(user_ids))
UsersIn(table, user_ids) == {r.id : r \in table} \cap user_ids

\* the statement has no ORDER BY: the store returns the rows in any order
RowOrders(ids) ==
    {f \in [1..Cardinality(ids) -> ids] : {f[i] : i \in 1..Cardinality(ids)} = ids}

\* leaderboard.append({"name": u.name, "total_points": points_map.get(u.id, 0)});
\* the name stands for the user it belongs to
leaderboard(rows, points_map) ==
    [i \in 1..Len(rows) |->
        [name |-> rows[i],
         total_points |-> IF rows[i] \in DOMAIN points_map THEN points_map[rows[i]] ELSE 0]]

RECURSIVE sort_ascending(_)
\* list.sort(key=total_points) without reverse
sort_ascending(l) ==
    IF Len(l) = 0 THEN << >>
    ELSE LET s == sort_ascending(SubSeq(l, 1, Len(l) - 1))
             x == l[Len(l)]
             k == Cardinality({i \in 1..Len(s) : s[i].total_points <= x.total_points})
         IN  SubSeq(s, 1, k) \o <<x>> \o SubSeq(s, k + 1, Len(s))

RECURSIVE sort_reverse(_)
\* list.sort(key=total_points, reverse=True): stable, entries with equal
\* keys keep the order they had
sort_reverse(l) ==
    IF Len(l) = 0 THEN << >>
    ELSE LET s == sort_reverse(SubSeq(l, 1, Len(l) - 1))
             x == l[Len(l)]
             k == Cardinality({i \in 1..Len(s) : s[i].total_points >= x.total_points})
         IN  SubSeq(s, 1, k) \o <<x>> \o SubSeq(s, k + 1, Len(s))

\* the endpoint before a request.  pc: the statement to run next; period, at:
\* the query parameter and utcnow() of the request; points_map, board: the
\* locals points_map and leaderboard; out: the response.  History: seen (the
\* predictions the first statement read), counted and counted_adj (the rows
\* the two SUMs ran over).
NoBoard == [pc |-> "idle", period |-> "total", at |-> 0, seen |-> {}, counted |-> {},
            counted_adj |-> {}, points_map |-> << >>, board |-> << >>, out |-> "none"]

TypeOK ==
    /\ now \in Times
    /\ nreq \in 0..MaxRequests
    /\ Len(matches) <= MaxMatches
    /\ lastPass \in 0..MaxMatches
    /\ faulted \in BOOLEAN

Init ==
    /\ now = 0
    /\ users = {}
    /\ matches = << >>
    /\ predictions = {}
    /\ adjustments = << >>
    /\ config = {}
    /\ sess = [s \in Sessions |-> Idle]
    /\ nreq = 0
    /\ lastPass = 0
    /\ faulted = FALSE
    /\ ev = NoEval
    /\ lb = NoBoard

\* number of sessions that are about to run the statement at pc
Pending(pc) == Cardinality({s \in Sessions : sess[s].pc = pc})

\* the clock advances
Tick ==
    /\ now + 1 \in Times
    /\ now' = now + 1
    /\ UNCHANGED <<users, matches, predictions, adjustments, config, sess, nreq, lastPass, faulted, ev, lb>>

\* seed.py: insert the two config rows that are missing and, when match 1 does
\* not exist, a test match scheduled for tomorrow; one commit
seed_data ==
    /\ HasMatch(1) \/ Pending("n_commit") < MaxMatches
    /\ config' = config \cup {r \in SeedConfig : ~ \E c \in config : c.key = r.key}
    /\ matches' = IF HasMatch(1) THEN matches
                  ELSE Append(matches, [match_date |-> now + SeedDays, goals_home |-> None,
                                        goals_away |-> None, status |-> PENDING])
    /\ <<config', matches'>> # <<config, matches>>
    /\ lastPass' = PassAfter(matches', predictions, config')
    /\ UNCHANGED <<now, users, predictions, adjustments, sess, nreq, faulted, ev, lb>>

\* make_admin.py: select(User); user.is_admin = True; commit ("no encontrado"
\* when the phone has no users row)
make_admin ==
    /\ HasUser(AdminPhone)
    /\ ~ UserRow(AdminPhone).is_admin
    /\ users' = {IF r.id = AdminPhone THEN [r EXCEPT !.is_admin = TRUE] ELSE r : r \in users}
    /\ UNCHANGED <<now, matches, predictions, adjustments, config, sess, nreq, lastPass, faulted, ev, lb>>

\* a dispatcher that runs the admin commands for every sender
DispatchUngated(cmd, is_admin) ==
    CASE cmd = "pronostico" -> "p_match"
      [] cmd = "soyadmin" -> "a_commit"
      [] cmd = "nuevo" -> "n_commit"
      [] cmd = "resultado" -> "r_match"
      [] cmd = "sancionar" -> "s_commit"
      [] OTHER -> "done"

\* where the dispatcher sends the command once the sender's User is loaded
Dispatch(cmd, is_admin) ==
    CASE cmd = "pronostico" -> "p_match"
      [] cmd = "soyadmin" -> "a_commit"
      [] cmd = "nuevo" -> IF is_admin THEN "n_commit" ELSE "done"
      [] cmd = "resultado" -> IF is_admin THEN "r_match" ELSE "done"
      [] cmd = "sancionar" -> IF is_admin THEN "s_commit" ELSE "done"
      [] OTHER -> "done"

\* POST /webhook from sender u with a body that starts with the command cmd;
\* get_or_create_user runs select(User).where(User.id == phone).  The numbers
\* in the body are drawn where the handler first uses them.
Receive(s, u, cmd) ==
    /\ sess[s].pc = "idle"
    /\ nreq < MaxRequests
    /\ nreq' = nreq + 1
    /\ IF HasUser(u)
       THEN sess' = [sess EXCEPT ![s] = [Idle EXCEPT !.cmd = cmd, !.user = u, !.at = now,
                                          !.out = "empty",
                                          !.pc = Dispatch(cmd, UserRow(u).is_admin)]]
       ELSE sess' = [sess EXCEPT ![s] = [Idle EXCEPT !.cmd = cmd, !.user = u, !.at = now,
                                          !.pc = "mkuser"]]
    /\ UNCHANGED <<now, users, matches, predictions, adjustments, config, lastPass, faulted, ev, lb>>

ReceivePronostico(s) == \E u \in Users : Receive(s, u, "pronostico")

\* get_or_create_user: session.add(User(id, name)); commit.  The primary key
\* rejects a second row for the phone (IntegrityError, the request fails).
CreateUser(s) ==
    /\ sess[s].pc = "mkuser"
    /\ IF HasUser(sess[s].user)
       THEN /\ Done(s, "error")
            /\ UNCHANGED users
       ELSE /\ users' = users \cup {[id |-> sess[s].user, is_admin |-> FALSE]}
            /\ sess' = [sess EXCEPT ![s].pc = Dispatch(sess[s].cmd, FALSE), ![s].out = "empty"]
    /\ UNCHANGED <<now, matches, predictions, adjustments, config, nreq, lastPass, faulted, ev, lb>>

\* !pronostico <mid> <h>-<a>: select(Match), "no existe" / "cerrado" checks
PronosticoMatch(s) ==
    /\ sess[s].pc = "p_match"
    /\ \E m \in 1..MaxMatches :
         IF ~ HasMatch(m)
         THEN sess' = [sess EXCEPT ![s] = Finished([sess[s] EXCEPT !.mid = m], "no_existe")]
         ELSE IF matches[m].match_date < now
         THEN sess' = [sess EXCEPT ![s] = Finished([sess[s] EXCEPT !.mid = m], "cerrado")]
         ELSE sess' = [sess EXCEPT ![s].mid = m, ![s].pc = "p_pred"]
    /\ UNCHANGED <<now, users, matches, predictions, adjustments, config, nreq, lastPass, faulted, ev, lb>>

\* !pronostico: select(Prediction).where(user_id, match_id), scalar_one_or_none
PronosticoSelect(s) ==
    /\ sess[s].pc = "p_pred"
    /\ LET found == PredsOf(sess[s].user, sess[s].mid)
       IN  IF found = {} THEN sess' = [sess EXCEPT ![s].pobj = NoRow, ![s].pc = "p_commit"]
           ELSE IF Cardinality(found) > 1 THEN Done(s, "error")
           ELSE sess' = [sess EXCEPT ![s].pobj = CHOOSE r \in found : TRUE, ![s].pc = "p_commit"]
    /\ UNCHANGED <<now, users, matches, predictions, adjustments, config, nreq, lastPass, faulted, ev, lb>>

\* the primary key (user_id, match_id) admits the INSERT
PredictionKeyFree(table, u, m) == ~ \E r \in table : r.user_id = u /\ r.match_id = m

\* !pronostico: db.add(prediction); commit.  A new object is INSERTed; a loaded
\* one is UPDATEd in the columns that changed.
PronosticoCommit(s) ==
    /\ sess[s].pc = "p_commit"
    /\ \E h \in Goals, a \in Goals :
       LET u == sess[s].user
           m == sess[s].mid
           loaded == sess[s].pobj
           fin(out) == sess' = [sess EXCEPT ![s] = Finished([sess[s] EXCEPT !.h = h, !.a = a], out)]
       IN  IF loaded = NoRow
           THEN IF PredictionKeyFree(predictions, u, m)
                THEN /\ predictions' = predictions \cup {NewPrediction(u, m, h, a)}
                     /\ fin("ok")
                ELSE /\ fin("error")
                     /\ UNCHANGED predictions
           ELSE LET new == [loaded EXCEPT !.pred_home = h, !.pred_away = a]
                    cur == PredsOf(u, m)
                IN  /\ predictions' = (predictions \ cur)
                                        \cup {UpdatePrediction(r, loaded, new) : r \in cur}
                    /\ fin("ok")
    /\ lastPass' = PassAfter(matches, predictions', config)
    /\ UNCHANGED <<now, users, matches, adjustments, config, nreq, faulted, ev, lb>>

ReceiveSoyAdmin(s) == \E u \in Users : Receive(s, u, "soyadmin")

\* !soyadmin <secret>: with the right secret user.is_admin = True; commit.
\* Any other secret falls through to the empty response.
SoyAdmin(s) ==
    /\ sess[s].pc = "a_commit"
    /\ \E secret_ok \in BOOLEAN :
         IF secret_ok
         THEN /\ users' = {IF r.id = sess[s].user THEN [r EXCEPT !.is_admin = TRUE] ELSE r : r \in users}
              /\ Done(s, "ok")
         ELSE /\ Done(s, "empty")
              /\ UNCHANGED users
    /\ UNCHANGED <<now, matches, predictions, adjustments, config, nreq, lastPass, faulted, ev, lb>>

ReceiveNuevo(s) ==
    /\ Len(matches) + Pending("n_commit") < MaxMatches
    /\ \E u \in Users : Receive(s, u, "nuevo")

\* !nuevo <home> <away> <DD/MM> <HH:MM>: Match(..., status=PENDING); commit
Nuevo(s) ==
    /\ sess[s].pc = "n_commit"
    /\ \E dt \in Times :
         matches' = Append(matches, [match_date |-> dt, goals_home |-> None,
                                     goals_away |-> None, status |-> PENDING])
    /\ Done(s, "ok")
    /\ lastPass' = PassAfter(matches', predictions, config)
    /\ UNCHANGED <<now, users, predictions, adjustments, config, nreq, faulted, ev, lb>>

ReceiveSancionar(s) ==
    /\ Len(adjustments) + Pending("s_commit") < MaxAdjustments
    /\ \E u \in Users : Receive(s, u, "sancionar")

\* a !sancionar that keeps one adjustment per target: it replaces the
\* target's row when there is one
SancionarUpsert(s) ==
    /\ sess[s].pc = "s_commit"
    /\ \E tgt \in Users, pts \in AdjPoints :
         LET row == [user_id |-> tgt, points |-> pts, reason |-> "Admin", created_at |-> now]
             old == {i \in 1..Len(adjustments) : adjustments[i].user_id = tgt}
         IN  IF HasUser(tgt)
             THEN /\ adjustments' = IF old = {} THEN Append(adjustments, row)
                                    ELSE [i \in 1..Len(adjustments) |->
                                             IF i \in old THEN row ELSE adjustments[i]]
                  /\ Done(s, "ok")
             ELSE /\ Done(s, "error")
                  /\ UNCHANGED adjustments
    /\ UNCHANGED <<now, users, matches, predictions, config, nreq, lastPass, faulted, ev, lb>>

\* !sancionar <user> <points>: ScoreAdjustment(user_id, points, reason="Admin");
\* commit.  The foreign key rejects a target without a users row.
Sancionar(s) ==
    /\ sess[s].pc = "s_commit"
    /\ \E tgt \in Users, pts \in AdjPoints :
         IF HasUser(tgt)
         THEN /\ adjustments' = Append(adjustments, [user_id |-> tgt, points |-> pts,
                                                          reason |-> "Admin", created_at |-> now])
              /\ Done(s, "ok")
         ELSE /\ Done(s, "error")
              /\ UNCHANGED adjustments
    /\ UNCHANGED <<now, users, matches, predictions, config, nreq, lastPass, faulted, ev, lb>>

ReceiveResultado(s) == \E u \in Users : Receive(s, u, "resultado")

\* a !resultado that answers a missing match like a stored result
ResultadoMatchLenient(s) ==
    /\ sess[s].pc = "r_match"
    /\ \E m \in 1..MaxMatches :
         IF ~ HasMatch(m)
         THEN sess' = [sess EXCEPT ![s] = Finished([sess[s] EXCEPT !.mid = m], "ok")]
         ELSE sess' = [sess EXCEPT ![s].mid = m, ![s].mobj = matches[m], ![s].mold = matches[m],
                                   ![s].pc = "r_commit"]
    /\ UNCHANGED <<now, users, matches, predictions, adjustments, config, nreq, lastPass, faulted, ev, lb>>

\* !resultado <mid> <gh>-<ga>: select(Match), "no existe" check
ResultadoMatch(s) ==
    /\ sess[s].pc = "r_match"
    /\ \E m \in 1..MaxMatches :
         IF ~ HasMatch(m)
         THEN sess' = [sess EXCEPT ![s] = Finished([sess[s] EXCEPT !.mid = m], "no_existe")]
         ELSE sess' = [sess EXCEPT ![s].mid = m, ![s].mobj = matches[m], ![s].mold = matches[m],
                                   ![s].pc = "r_commit"]
    /\ UNCHANGED <<now, users, matches, predictions, adjustments, config, nreq, lastPass, faulted, ev, lb>>

\* a finalization that leaves a FINISHED match as it is
FinalizedMatchOnce(m_obj, gh, ga) ==
    IF m_obj.status = FINISHED THEN m_obj
    ELSE [m_obj EXCEPT !.goals_home = gh, !.goals_away = ga, !.status = FINISHED]

\* a finalization that reopens a match it finds FINISHED
FinalizedMatchReopening(m_obj, gh, ga) ==
    [m_obj EXCEPT !.goals_home = gh, !.goals_away = ga,
                  !.status = IF m_obj.status = FINISHED THEN PENDING ELSE FINISHED]

\* a finalization that sets the status and leaves the score fields alone
FinalizedMatchStatusOnly(m_obj, gh, ga) ==
    [m_obj EXCEPT !.status = FINISHED]

\* m_obj.goals_home = gh; m_obj.goals_away = ga; m_obj.status = FINISHED
FinalizedMatch(m_obj, gh, ga) ==
    [m_obj EXCEPT !.goals_home = gh, !.goals_away = ga, !.status = FINISHED]

\* !resultado: db.add(m_obj); commit.  The session keeps the object as it set it.
ResultadoCommit(s) ==
    /\ sess[s].pc = "r_commit"
    /\ \E gh \in Goals, ga \in Goals :
       LET new == FinalizedMatch(sess[s].mobj, gh, ga)
       IN  /\ matches' = [matches EXCEPT ![sess[s].mid] = UpdateMatch(@, sess[s].mobj, new)]
           /\ sess' = [sess EXCEPT ![s].h = gh, ![s].a = ga, ![s].mobj = new, ![s].pc = "rc_match"]
    /\ lastPass' = PassAfter(matches', predictions, config)
    /\ UNCHANGED <<now, users, predictions, adjustments, config, nreq, faulted, ev, lb>>

\* recalculate_all_scores(session, match_id) called with a session of its own
ReceiveRecalc(s) ==
    /\ sess[s].pc = "idle"
    /\ nreq < MaxRequests
    /\ nreq' = nreq + 1
    /\ sess' = [sess EXCEPT ![s] = [Idle EXCEPT !.cmd = "recalc", !.at = now, !.pc = "rc_match"]]
    /\ UNCHANGED <<now, users, matches, predictions, adjustments, config, lastPass, faulted, ev, lb>>

\* the guard without the status test
RecalcGuardNoStatus(match_obj) == match_obj = NoRow

\* if not match_obj or match_obj.status != MatchStatus.FINISHED: return
RecalcGuard(match_obj) == match_obj = NoRow \/ match_obj.status # FINISHED

\* recalculate_all_scores: select(Match).  A Match the session already holds
\* (the one !resultado has just set) is returned as the session holds it, the
\* row is not read again.
RecalcMatch(s) ==
    /\ sess[s].pc = "rc_match"
    /\ \E m \in 1..MaxMatches :
         /\ sess[s].cmd = "resultado" => m = sess[s].mid
         /\ LET match_obj == IF sess[s].mobj # NoRow THEN sess[s].mobj
                             ELSE IF HasMatch(m) THEN matches[m] ELSE NoRow
            IN  IF RecalcGuard(match_obj)
                THEN sess' = [sess EXCEPT ![s] = Finished([sess[s] EXCEPT !.mid = m], "None")]
                ELSE sess' = [sess EXCEPT ![s].mid = m, ![s].mobj = match_obj, ![s].pc = "rc_preds"]
    /\ UNCHANGED <<now, users, matches, predictions, adjustments, config, nreq, lastPass, faulted, ev, lb>>

\* recalculate_all_scores: select(Prediction).where(match_id)
RecalcSelect(s) ==
    /\ sess[s].pc = "rc_preds"
    /\ sess' = [sess EXCEPT ![s].preds = PredsOfMatch(sess[s].mid), ![s].pc = "rc_config"]
    /\ UNCHANGED <<now, users, matches, predictions, adjustments, config, nreq, lastPass, faulted, ev, lb>>

\* recalculate_all_scores: config = await get_config_dict(session)
RecalcConfig(s) ==
    /\ sess[s].pc = "rc_config"
    /\ sess' = [sess EXCEPT ![s].cfg = get_config_dict(config), ![s].pc = "rc_commit"]
    /\ UNCHANGED <<now, users, matches, predictions, adjustments, config, nreq, lastPass, faulted, ev, lb>>

\* a loop body that adds the new points to the stored ones
ScoredRowAdding(pred, match_obj, cfg) ==
    LET sc == calculate_score(pred.pred_home, pred.pred_away,
                              match_obj.goals_home, match_obj.goals_away, cfg)
    IN  [pred EXCEPT !.points = @ + sc[1], !.type = sc[2]]

\* a loop body that reads game_config again for the predictions after the first
ScoredRowRereading(pred, match_obj, cfg) ==
    LET sc == calculate_score(pred.pred_home, pred.pred_away,
                              match_obj.goals_home, match_obj.goals_away,
                              IF pred.user_id = 1 THEN cfg ELSE get_config_dict(config))
    IN  [pred EXCEPT !.points = sc[1], !.type = sc[2]]

\* the loop body: pred.points, pred.type = calculate_score(...)
ScoredRow(pred, match_obj, cfg) ==
    LET sc == calculate_score(pred.pred_home, pred.pred_away,
                              match_obj.goals_home, match_obj.goals_away, cfg)
    IN  [pred EXCEPT !.points = sc[1], !.type = sc[2]]

\* the flush of the pass: one UPDATE per loaded prediction that changed
FlushPass(table, loaded, match_obj, cfg) ==
    {IF \E l \in loaded : l.user_id = r.user_id /\ l.match_id = r.match_id
     THEN LET l == CHOOSE l \in loaded : l.user_id = r.user_id /\ l.match_id = r.match_id
          IN  UpdatePrediction(r, l, ScoredRow(l, match_obj, cfg))
     ELSE r : r \in table}

\* the value a function returns to its caller: the webhook's reply for
\* !resultado, None for recalculate_all_scores itself
PassResult(cmd) == IF cmd = "recalc" THEN "None" ELSE "ok"

\* recalculate_all_scores: the loop and session.commit()
RecalcCommit(s) ==
    /\ sess[s].pc = "rc_commit"
    /\ predictions' = FlushPass(predictions, sess[s].preds, sess[s].mobj, sess[s].cfg)
    /\ sess' = [sess EXCEPT ![s] = Finished([sess[s] EXCEPT !.again = (lastPass = sess[s].mid)],
                                             PassResult(sess[s].cmd))]
    /\ lastPass' = sess[s].mid
    /\ UNCHANGED <<now, users, matches, adjustments, config, nreq, faulted, ev, lb>>

\* a failed flush whose UPDATEs stay (each statement committed on its own)
AfterFailedFlushKept(table, written, match_obj, cfg) ==
    FlushPass(table, written, match_obj, cfg)

\* the table after a flush that wrote the UPDATEs of the rows in written and
\* then failed: the transaction is rolled back
AfterFailedFlush(table, written, match_obj, cfg) == table

\* recalculate_all_scores: session.commit() raises after some of the UPDATEs;
\* the exception leaves the handler (HTTP 500)
RecalcFail(s) ==
    /\ sess[s].pc = "rc_commit"
    /\ \E written \in SUBSET sess[s].preds :
         /\ predictions' = AfterFailedFlush(predictions, written, sess[s].mobj, sess[s].cfg)
         /\ sess' = [sess EXCEPT ![s] = Finished([sess[s] EXCEPT !.fault = TRUE, !.written = written],
                                                  "error")]
    /\ lastPass' = PassAfter(matches, predictions', config)
    /\ faulted' = TRUE
    /\ UNCHANGED <<now, users, matches, adjustments, config, nreq, ev, lb>>

\* the response has been sent; the session is closed
Return(s) ==
    /\ sess[s].pc = "done"
    /\ sess' = [sess EXCEPT ![s] = Idle]
    /\ UNCHANGED <<now, users, matches, predictions, adjustments, config, nreq, lastPass, faulted, ev, lb>>

SessionStep(s) ==
    \/ ReceivePronostico(s)
    \/ ReceiveSoyAdmin(s)
    \/ ReceiveNuevo(s)
    \/ ReceiveResultado(s)
    \/ ReceiveSancionar(s)
    \/ ReceiveRecalc(s)
    \/ CreateUser(s)
    \/ PronosticoMatch(s)
    \/ PronosticoSelect(s)
    \/ PronosticoCommit(s)
    \/ SoyAdmin(s)
    \/ Nuevo(s)
    \/ Sancionar(s)
    \/ ResultadoMatch(s)
    \/ ResultadoCommit(s)
    \/ RecalcMatch(s)
    \/ RecalcSelect(s)
    \/ RecalcConfig(s)
    \/ RecalcCommit(s)
    \/ RecalcFail(s)
    \/ Return(s)

Next ==
    \/ Tick
    \/ seed_data
    \/ make_admin
    \/ \E s \in Sessions : SessionStep(s)

\* requests arrive and are served concurrently
Spec == Init /\ [][Next]_vars

\* the session of a deployment that serves one request at a time
Worker == CHOOSE s \in Sessions : TRUE

SeqNext ==
    \/ Tick
    \/ seed_data
    \/ make_admin
    \/ SessionStep(Worker)

\* requests are served one after the other
SeqSpec == Init /\ [][SeqNext]_vars

\* a further !sancionar: the ledger grows with every one an administrator sends
ReceiveMoreSancionar(s) == \E u \in Users : Receive(s, u, "sancionar")

LedgerNext ==
    \/ SeqNext
    \/ ReceiveMoreSancionar(Worker)

\* requests served one after the other, with any number of !sancionar among them
LedgerSpec == Init /\ [][LedgerNext]_vars

\* ------------------------------------------------- the scoring rule alone
\* game_config contents the rule is evaluated under, and the number each value denotes
ScoreConfigs == { {},
                  {[key |-> "points_prime", value |-> <<1, 0>>]},
                  {[key |-> "points_repechaje", value |-> <<4>>]},
                  {[key |-> "points_prime", value |-> <<7>>],
                   [key |-> "points_repechaje", value |-> <<0, 2>>]} }

ScoreInit ==
    /\ now = 0
    /\ users = {}
    /\ matches = << >>
    /\ predictions = {}
    /\ adjustments = << >>
    /\ config = {}
    /\ sess = [s \in Sessions |-> Idle]
    /\ nreq = 0
    /\ lastPass = 0
    /\ faulted = FALSE
    /\ \E ph \in 0..MaxScoreGoals, pa \in 0..MaxScoreGoals,
          rh \in 0..MaxScoreGoals, ra \in 0..MaxScoreGoals, cfg \in ScoreConfigs :
         ev = [NoEval EXCEPT !.ph = ph, !.pa = pa, !.rh = rh, !.ra = ra, !.cfg = cfg]
    /\ lb = NoBoard

\* one call of calculate_score
Evaluate ==
    /\ ~ ev.called
    /\ ev' = [ev EXCEPT !.called = TRUE,
                        !.res = calculate_score(ev.ph, ev.pa, ev.rh, ev.ra, get_config_dict(ev.cfg))]
    /\ UNCHANGED <<now, users, matches, predictions, adjustments, config, sess, nreq, lastPass, faulted, lb>>

ScoreNext == Evaluate

ScoreSpec == ScoreInit /\ [][ScoreNext]_vars

\* ------------------------------------------ the leaderboard over a store
\* GET /leaderboard-image?period=...: now = utcnow(); db.execute(stmt_preds)
LbPreds(period) ==
    /\ lb.pc = "idle"
    /\ \E view \in ReadCommitted(predictions) :
         LET rows == join_where(view, matches, date_filter(period, now))
         IN  lb' = [NoBoard EXCEPT !.pc = "lb_adj", !.period = period, !.at = now,
                                   !.seen = view, !.counted = rows,
                                   !.points_map = stmt_preds(rows)]
    /\ UNCHANGED <<now, users, matches, predictions, adjustments, config, sess, nreq, lastPass, faulted, ev>>

\* db.execute(stmt_adj), the merge loop, and the empty response when
\* points_map is empty
LbAdj ==
    /\ lb.pc = "lb_adj"
    /\ LET idx == adj_where(adjustments, date_filter(lb.period, lb.at))
           merged == MergeAdj(lb.points_map, stmt_adj(adjustments, idx))
       IN  lb' = [lb EXCEPT !.counted_adj = idx, !.points_map = merged,
                            !.pc = IF DOMAIN merged = {} THEN "done" ELSE "lb_users",
                            !.out = IF DOMAIN merged = {} THEN "empty" ELSE "none"]
    /\ UNCHANGED <<now, users, matches, predictions, adjustments, config, sess, nreq, lastPass, faulted, ev>>

\* db.execute(select(User).where(User.id.in_(user_ids))), the list and its sort
LbUsers ==
    /\ lb.pc = "lb_users"
    /\ \E rows \in RowOrders(UsersIn(users, DOMAIN lb.points_map)) :
         lb' = [lb EXCEPT !.board = sort_reverse(leaderboard(rows, lb.points_map)),
                          !.pc = "done", !.out = "image"]
    /\ UNCHANGED <<now, users, matches, predictions, adjustments, config, sess, nreq, lastPass, faulted, ev>>

\* the image has been sent
LbReturn ==
    /\ lb.pc = "done"
    /\ lb' = NoBoard
    /\ UNCHANGED <<now, users, matches, predictions, adjustments, config, sess, nreq, lastPass, faulted, ev>>

\* stores the endpoint is read over: three users, two matches finalized 1-0,
\* predictions scored by a pass under the seeded config, adjustments
MaxBoardRows == 2
BoardUsers == {1, 2, 3}
BoardNows == {40}
BoardSchedules == {<<0, 10>>, <<0, 33>>, <<10, 33>>, <<33, 10>>, <<45, 33>>}
BoardCreated == {9, 33}
BoardGuesses == {<<1, 0>>, <<2, 0>>, <<0, 1>>}

BoardRow(u, m, g) ==
    ScoredRow(NewPrediction(u, m, g[1], g[2]),
              [goals_home |-> 1, goals_away |-> 0], SeedConfig)

BoardRows ==
    {BoardRow(u, m, g) : u \in BoardUsers, m \in 1..2, g \in BoardGuesses}

BoardInit ==
    /\ now \in BoardNows
    /\ users = {[id |-> u, is_admin |-> FALSE] : u \in BoardUsers}
    /\ \E dates \in BoardSchedules :
         matches = [m \in 1..Len(dates) |->
                       [match_date |-> dates[m], goals_home |-> 1, goals_away |-> 0,
                        status |-> FINISHED]]
    /\ predictions \in {S \in SUBSET BoardRows :
                           /\ Cardinality(S) <= MaxBoardRows
                           /\ \A r1 \in S, r2 \in S :
                                (r1.user_id = r2.user_id /\ r1.match_id = r2.match_id) => r1 = r2}
    /\ \E n \in 0..MaxAdjustments :
         adjustments \in [1..n -> [user_id : BoardUsers, points : AdjPoints,
                                  reason : {"Admin"}, created_at : BoardCreated]]
    /\ config = SeedConfig
    /\ sess = [s \in Sessions |-> Idle]
    /\ nreq = 0
    /\ lastPass = 0
    /\ faulted = FALSE
    /\ ev = NoEval
    /\ lb = NoBoard

BoardNext ==
    \/ \E period \in Periods : LbPreds(period)
    \/ LbAdj
    \/ LbUsers
    \/ LbReturn

BoardSpec == BoardInit /\ [][BoardNext]_vars

\* ------------------------------------------------ the writers of matches
\* Only seed.py, !nuevo and !resultado write the table matches, and the row
\* seed.py inserts is the row of a !nuevo for tomorrow.  Both senders are
\* administrators already; their requests are served concurrently.
MatchInit ==
    /\ now = 0
    /\ users = {[id |-> u, is_admin |-> TRUE] : u \in Users}
    /\ matches = << >>
    /\ predictions = {}
    /\ adjustments = << >>
    /\ config = {}
    /\ sess = [s \in Sessions |-> Idle]
    /\ nreq = 0
    /\ lastPass = 0
    /\ faulted = FALSE
    /\ ev = NoEval
    /\ lb = NoBoard

MatchStep(s) ==
    \/ ReceiveNuevo(s)
    \/ ReceiveResultado(s)
    \/ Nuevo(s)
    \/ ResultadoMatch(s)
    \/ ResultadoCommit(s)
    \/ RecalcMatch(s)
    \/ RecalcSelect(s)
    \/ RecalcConfig(s)
    \/ RecalcCommit(s)
    \/ Return(s)

MatchNext == \E s \in Sessions : MatchStep(s)

MatchSpec == MatchInit /\ [][MatchNext]_vars

\* --------------------------------- a pass, a config change and a reader
\* game_config as seed.py leaves it and with other values
AltConfig == {[key |-> "points_prime", value |-> <<7>>],
              [key |-> "points_repechaje", value |-> <<4>>]}
ConfigTables == {SeedConfig, AltConfig}

\* the store just after a !resultado has committed the match: every user has
\* a prediction, none of them scored yet
PassInit ==
    /\ now = 0
    /\ users = {[id |-> u, is_admin |-> FALSE] : u \in Users}
    /\ \E gh \in Goals, ga \in Goals :
         matches = <<[match_date |-> 0, goals_home |-> gh, goals_away |-> ga, status |-> FINISHED]>>
    /\ \E g \in [Users -> Goals \X Goals] :
         predictions = {NewPrediction(u, 1, g[u][1], g[u][2]) : u \in Users}
    /\ adjustments = << >>
    /\ config \in ConfigTables
    /\ sess = [s \in Sessions |-> Idle]
    /\ nreq = 0
    /\ lastPass = 0
    /\ faulted = FALSE
    /\ ev = NoEval
    /\ lb = NoBoard

\* the rows of game_config are replaced (the table is edited in the store,
\* no handler writes it) while a pass is running
EditConfig ==
    /\ \E s \in Sessions : sess[s].pc \in {"rc_preds", "rc_config", "rc_commit"}
    /\ \E c \in ConfigTables \ {config} : config' = c
    /\ lastPass' = PassAfter(matches, predictions, config')
    /\ UNCHANGED <<now, users, matches, predictions, adjustments, sess, nreq, faulted, ev, lb>>

PassNext ==
    \/ ReceiveRecalc(Worker)
    \/ RecalcMatch(Worker)
    \/ RecalcSelect(Worker)
    \/ RecalcConfig(Worker)
    \/ RecalcCommit(Worker)
    \/ Return(Worker)
    \/ EditConfig
    \/ LbPreds("total")
    \/ LbAdj
    \/ LbUsers
    \/ LbReturn

PassSpec == PassInit /\ [][PassNext]_vars

\* ------------------------------------------------------------------ claims
\* the number a configured value denotes
Denotes(value) ==
    CASE value = <<1, 0>> -> 10
      [] value = <<4>> -> 4
      [] value = <<7>> -> 7
      [] value = <<0, 2>> -> 2
      [] value = <<5>> -> 5
      [] value = <<3>> -> 3

Configured(cfg, k, default) ==
    IF \E r \in cfg : r.key = k THEN Denotes((CHOOSE r \in cfg : r.key = k).value) ELSE default

Direction(home, away) == IF home > away THEN "HomeWin" ELSE IF away > home THEN "AwayWin" ELSE "Draw"

\* what the scoring contract prescribes
Expected(ph, pa, fh, fa, cfg) ==
    IF ph = fh /\ pa = fa THEN <<Configured(cfg, "points_prime", 5), PRIME>>
    ELSE IF Direction(ph, pa) = Direction(fh, fa) THEN <<Configured(cfg, "points_repechaje", 3), REPECHAJE>>
    ELSE <<0, FAIL>>

\* C4: calculate_score returns (exact_points, Exact) for an exact guess,
\* otherwise (partial_points, PartialDirection) when the directions agree,
\* otherwise (0, Miss); the points are the configured ones, or 5 and 3.
C4_ScoreContract ==
    ev.called => ev.res = Expected(ev.ph, ev.pa, ev.rh, ev.ra, ev.cfg)

\* an exact draw was scored under a config that sets both keys
C4_Witness ==
    /\ ev.called
    /\ ev.ph = ev.rh /\ ev.pa = ev.ra /\ ev.ph = ev.pa
    /\ Cardinality(ev.cfg) = 2
    /\ ev.res = <<7, PRIME>>

\* the points and classification the contract prescribes for row r of match m
Scored(r, gh, ga) ==
    <<r.points, r.type>> = Expected(r.pred_home, r.pred_away, gh, ga, config)

InFlight == {s \in Sessions : sess[s].pc # "idle"}

\* C1: no reader of the committed tables sees a FINISHED match one of whose
\* predictions does not carry the points and classification of the match's
\* committed final score.
C1_NoStaleFinalized ==
    \A m \in 1..Len(matches) :
        matches[m].status = FINISHED =>
            \A r \in PredsOfMatch(m) : Scored(r, matches[m].goals_home, matches[m].goals_away)

\* C2: when the recalculation pass of a finalization fails, the match and its
\* predictions are left as they were before the request.
C2_AllOrNothing ==
    \A s \in Sessions :
        (sess[s].pc = "done" /\ sess[s].cmd = "resultado" /\ sess[s].fault)
            => /\ matches[sess[s].mid] = sess[s].mold
               /\ PredsOfMatch(sess[s].mid) = sess[s].preds

\* C3: with every request completed and none of them failed, each prediction of a FINISHED match holds
\* what the scoring rule gives for its guess, the final score and the config.
C3_DerivedData ==
    (InFlight = {} /\ ~ faulted) =>
        \A r \in predictions :
            matches[r.match_id].status = FINISHED =>
                Scored(r, matches[r.match_id].goals_home, matches[r.match_id].goals_away)

\* C5: when a submitPrediction is applied, the pair (user, match) has exactly
\* one row and the row holds the guess of that call, whatever other calls
\* for the pair are in progress.
C5_LastApplied ==
    [][\A s \in Sessions :
          (sess[s].pc = "p_commit" /\ sess'[s].pc = "done" /\ sess'[s].out = "ok")
              => {<<r.user_id, r.match_id, r.pred_home, r.pred_away>> : r \in
                     {x \in predictions' : x.user_id = sess[s].user /\ x.match_id = sess[s].mid}}
                 = {<<sess[s].user, sess[s].mid, sess'[s].h, sess'[s].a>>}]_vars

\* C6: a submitPrediction stores a guess only for a match that is Open and
\* whose scheduled time is not before the request time.
C6_OnlyWhileOpen ==
    \A s \in Sessions :
        (sess[s].pc = "done" /\ sess[s].cmd = "pronostico" /\ sess[s].out = "ok")
            => /\ matches[sess[s].mid].status = PENDING
               /\ matches[sess[s].mid].match_date >= sess[s].at

\* C7: a recalculation pass that follows a pass of the same match, with no
\* change of the result, the guesses or the config in between, leaves every
\* prediction row of the match as the first pass left it.
C7_Idempotent ==
    \A s \in Sessions :
        (sess[s].pc = "done" /\ sess[s].again /\ ~ sess[s].fault)
            => PredsOfMatch(sess[s].mid) = sess[s].preds

\* a second pass in succession over a match with a scored prediction
C7_Witness ==
    \E s \in Sessions :
        /\ sess[s].pc = "done" /\ sess[s].again /\ ~ sess[s].fault
        /\ \E r \in sess[s].preds : r.type = PRIME

\* C8: a !resultado for a match that is already FINISHED is accepted: the
\* match then holds the new score and is FINISHED, and every prediction of
\* the match is scored against the new score.
C8_Refinalize ==
    \A s \in Sessions :
        (sess[s].pc = "done" /\ sess[s].cmd = "resultado" /\ sess[s].mold # NoRow
            /\ sess[s].mold.status = FINISHED)
            => /\ sess[s].out \in {"ok", "error"}
               /\ sess[s].out = "error" <=> sess[s].fault
               /\ matches[sess[s].mid] =
                      [sess[s].mold EXCEPT !.goals_home = sess[s].h, !.goals_away = sess[s].a]
               /\ sess[s].out = "ok" =>
                      \A r \in PredsOfMatch(sess[s].mid) : Scored(r, sess[s].h, sess[s].a)

\* a FINISHED match was given another score and its prediction, exact for the
\* earlier score, was scored again
C8_Witness ==
    \E s \in Sessions :
        /\ sess[s].pc = "done" /\ sess[s].cmd = "resultado" /\ sess[s].out = "ok"
        /\ sess[s].mold # NoRow /\ sess[s].mold.status = FINISHED
        /\ <<sess[s].mold.goals_home, sess[s].mold.goals_away>> # <<sess[s].h, sess[s].a>>
        /\ \E r \in sess[s].preds :
              /\ r.type = PRIME
              /\ r.pred_home = sess[s].mold.goals_home /\ r.pred_away = sess[s].mold.goals_away

\* C9: when the commit of a recalculation pass fails, every prediction of the
\* match is as the pass loaded it, and the request ends in an error.
C9_FailedPass ==
    \A s \in Sessions :
        (sess[s].pc = "done" /\ sess[s].fault)
            => /\ PredsOfMatch(sess[s].mid) = sess[s].preds
               /\ sess[s].out = "error"

\* the pass failed after the UPDATE of one of two predictions, a row whose
\* points the pass changes
C9_Witness ==
    \E s \in Sessions :
        /\ sess[s].pc = "done" /\ sess[s].fault
        /\ Cardinality(sess[s].preds) = 2
        /\ \E r \in sess[s].written :
              /\ sess[s].written = {r}
              /\ ~ Scored(r, matches[sess[s].mid].goals_home, matches[sess[s].mid].goals_away)

\* a call of recalculate_all_scores by session s ends on a match that is Open
OpenRecalcEnds(s) ==
    /\ sess[s].pc = "rc_match" /\ sess[s].cmd = "recalc"
    /\ sess'[s] # sess[s]
    /\ HasMatch(sess'[s].mid)
    /\ matches[sess'[s].mid].status = PENDING

LastNDays(period) == IF period = "semanal" THEN 7 ELSE 30

\* the date d is not earlier than n days before the request at t
FromWindow(period, t, d) == period = "total" \/ d >= t - LastNDays(period)

\* the date d lies in the n days that end at the request at t
WithinWindow(period, t, d) == period = "total" \/ (d >= t - LastNDays(period) /\ d <= t)

\* the items of user u that the window of the request includes
IncludedPreds(u) ==
    {r \in predictions : /\ r.user_id = u
                         /\ FromWindow(lb.period, lb.at, matches[r.match_id].match_date)}
IncludedAdj(u) ==
    {i \in 1..Len(adjustments) : /\ adjustments[i].user_id = u
                                 /\ FromWindow(lb.period, lb.at, adjustments[i].created_at)}

RECURSIVE PredTotal(_, _)
\* the points of u's included predictions of the matches 1..n
PredTotal(u, n) ==
    IF n = 0 THEN 0
    ELSE PredTotal(u, n - 1)
         + (IF \E r \in IncludedPreds(u) : r.match_id = n
            THEN (CHOOSE r \in IncludedPreds(u) : r.match_id = n).points ELSE 0)

RECURSIVE AdjTotal(_, _)
\* the deltas of u's included adjustments among the adjustments 1..n
AdjTotal(u, n) ==
    IF n = 0 THEN 0
    ELSE AdjTotal(u, n - 1) + (IF n \in IncludedAdj(u) THEN adjustments[n].points ELSE 0)

\* the request has been answered
BoardDone == lb.pc = "done"

\* C11: every total in the leaderboard is the sum of the points of the user's
\* included predictions plus the sum of the deltas of the user's included
\* adjustments.
C11_Totals ==
    BoardDone =>
        \A i \in 1..Len(lb.board) :
            lb.board[i].total_points =
                PredTotal(lb.board[i].name, Len(matches))
                + AdjTotal(lb.board[i].name, Len(adjustments))

\* a user with predictions worth 5 and 3 and an adjustment of -2 is reported with 6
C11_Witness ==
    /\ BoardDone
    /\ \E i \in 1..Len(lb.board) :
         /\ {r.points : r \in IncludedPreds(lb.board[i].name)} = {5, 3}
         /\ \E j \in IncludedAdj(lb.board[i].name) : adjustments[j].points = -2
         /\ lb.board[i].total_points = 6

\* both SUM statements of the request have run
BoardRead == lb.pc \in {"lb_users", "done"}

\* C12 as stated: the predictions summed are those whose match is scheduled
\* within the n days that end at the request, the adjustments summed those
\* created within them; for AllTime all are summed.
C12_WithinWindow ==
    BoardRead =>
        /\ lb.counted = {r \in predictions :
                            WithinWindow(lb.period, lb.at, matches[r.match_id].match_date)}
        /\ lb.counted_adj = {i \in 1..Len(adjustments) :
                                WithinWindow(lb.period, lb.at, adjustments[i].created_at)}

\* C12: the predictions summed are those whose match is scheduled not earlier
\* than n days before the request (a match scheduled after the request
\* included), the adjustments summed those created not earlier than that; for
\* AllTime all are summed.
C12_WindowFrom ==
    BoardRead =>
        /\ lb.counted = {r \in predictions :
                            FromWindow(lb.period, lb.at, matches[r.match_id].match_date)}
        /\ lb.counted_adj = {i \in 1..Len(adjustments) :
                                FromWindow(lb.period, lb.at, adjustments[i].created_at)}

\* a mensual request left out a prediction of a match 40 days back and an
\* adjustment 31 days old, and summed a prediction of a match 30 days back
C12_Witness ==
    /\ BoardRead
    /\ lb.period = "mensual"
    /\ \E r \in predictions : matches[r.match_id].match_date = lb.at - 40 /\ r \notin lb.counted
    /\ \E r \in lb.counted : matches[r.match_id].match_date = lb.at - 30
    /\ \E i \in 1..Len(adjustments) : adjustments[i].created_at = lb.at - 31 /\ i \notin lb.counted_adj

\* C13: the leaderboard is in order of non-increasing total.
C13_Descending ==
    BoardDone =>
        \A i \in 1..Len(lb.board), j \in 1..Len(lb.board) :
            i < j => lb.board[i].total_points >= lb.board[j].total_points

\* three entries: two with the same total first, a smaller one last
C13_Witness ==
    /\ BoardDone
    /\ Len(lb.board) = 3
    /\ lb.board[1].total_points = lb.board[2].total_points
    /\ lb.board[2].total_points > lb.board[3].total_points

\* C14: the leaderboard of a request is the same in whatever order the store
\* returns the users' rows.
C14_Deterministic ==
    (BoardDone /\ lb.out = "image") =>
        \A rows \in RowOrders(UsersIn(users, DOMAIN lb.points_map)) :
            sort_reverse(leaderboard(rows, lb.points_map)) = lb.board

\* the users the window of the request has an item of
Active ==
    {u \in {r.id : r \in users} : IncludedPreds(u) # {} \/ IncludedAdj(u) # {}}

\* C15: the users listed, each once, are the users with an included
\* prediction or adjustment.
C15_Listed ==
    BoardDone =>
        /\ {lb.board[i].name : i \in 1..Len(lb.board)} = Active
        /\ Len(lb.board) = Cardinality(Active)

\* a user whose only included item is worth 0 is listed with 0, a user with a
\* prediction outside the window and a user with no item are not listed
C15_Witness ==
    /\ BoardDone
    /\ \E i \in 1..Len(lb.board) :
         /\ lb.board[i].total_points = 0
         /\ IncludedAdj(lb.board[i].name) = {}
    /\ \E u \in {r.id : r \in users} \ Active : \E r \in predictions : r.user_id = u
    /\ \E u \in {r.id : r \in users} \ Active : ~ \E r \in predictions : r.user_id = u

\* C16: for every match, both final score fields are populated exactly when
\* the match is FINISHED; a PENDING match has neither populated.
C16_ScoreIffFinished ==
    \A m \in 1..Len(matches) :
        /\ matches[m].status \in {PENDING, FINISHED}
        /\ matches[m].status = FINISHED
              => (matches[m].goals_home # None /\ matches[m].goals_away # None)
        /\ matches[m].status = PENDING
              => (matches[m].goals_home = None /\ matches[m].goals_away = None)

\* two !resultado requests that both loaded the match while it was PENDING
\* have both committed it
C16_Witness ==
    /\ \A s \in Sessions :
         /\ sess[s].cmd = "resultado"
         /\ sess[s].mold # NoRow /\ sess[s].mold.status = PENDING
         /\ sess[s].pc \in {"rc_match", "rc_preds", "rc_config", "rc_commit", "done"}
    /\ \E s \in Sessions : \E t \in Sessions : <<sess[s].h, sess[s].a>> # <<sess[t].h, sess[t].a>>
    /\ \E m \in 1..Len(matches) : matches[m].status = FINISHED

\* C17: a !resultado for a match id that has no row ends with the not-found
\* reply, and no step of the request up to that reply changes a match, a
\* prediction or an adjustment.
C17_NotFound ==
    [][\A s \in Sessions :
          /\ (sess[s].pc = "r_match" /\ sess'[s] # sess[s] /\ ~ HasMatch(sess'[s].mid))
                => /\ sess'[s].pc = "done"
                   /\ sess'[s].out = "no_existe"
                   /\ <<matches, predictions, adjustments>>' = <<matches, predictions, adjustments>>
          /\ (sess'[s] # sess[s] /\ sess'[s].cmd = "resultado" /\ sess'[s].pc \in {"mkuser", "r_match"})
                => <<matches, predictions, adjustments>>' = <<matches, predictions, adjustments>>]_vars

\* an administrator's !resultado for a missing match has been answered
C17_Witness ==
    \E s \in Sessions :
        /\ sess[s].pc = "done" /\ sess[s].cmd = "resultado"
        /\ ~ HasMatch(sess[s].mid)
        /\ sess[s].out = "no_existe"
        /\ UserRow(sess[s].user).is_admin

\* the sender of the request that session s is serving or receives in this step
Sender(s) == IF sess[s].cmd # "none" THEN sess[s] ELSE sess'[s]

\* C20: a step of a !resultado or !sancionar request whose sender does not
\* have the admin flag changes no match and no prediction and creates no
\* adjustment.
C20_AdminOnly ==
    [][\A s \in Sessions :
          (/\ sess'[s] # sess[s]
           /\ Sender(s).cmd \in {"resultado", "sancionar"}
           /\ ~ (HasUser(Sender(s).user) /\ UserRow(Sender(s).user).is_admin))
              => <<matches, predictions, adjustments>>' = <<matches, predictions, adjustments>>]_vars

\* a !resultado of a sender without the admin flag has been answered with the
\* empty response while a PENDING match with a prediction is stored
C20_Witness ==
    \E s \in Sessions :
        /\ sess[s].pc = "done" /\ sess[s].cmd = "resultado" /\ sess[s].out = "empty"
        /\ ~ UserRow(sess[s].user).is_admin
        /\ \E m \in 1..Len(matches) : matches[m].status = PENDING /\ PredsOfMatch(m) # {}

\* C18: the predictions a pass commits are all scored under the values of the
\* config the pass read, whatever game_config holds by then.
C18_OneConfig ==
    [][\A s \in Sessions :
          (sess[s].pc = "rc_commit" /\ sess'[s].pc = "done" /\ ~ sess'[s].fault)
              => \A r \in {x \in predictions' : x.match_id = sess[s].mid} :
                    <<r.points, r.type>> =
                        Expected(r.pred_home, r.pred_away,
                                 sess[s].mobj.goals_home, sess[s].mobj.goals_away, sess[s].cfg)]_vars

\* a pass has committed an exact and a partial prediction under values that
\* game_config, changed while the pass was running, no longer holds
C18_Witness ==
    \E s \in Sessions :
        /\ sess[s].pc = "done" /\ sess[s].cmd = "recalc" /\ ~ sess[s].fault
        /\ \E r1 \in PredsOfMatch(sess[s].mid), r2 \in PredsOfMatch(sess[s].mid) :
              /\ r1.type = PRIME /\ r1.points # Configured(config, "points_prime", 5)
              /\ r2.type = REPECHAJE /\ r2.points # Configured(config, "points_repechaje", 3)

C21_OneWay ==
    [][/\ Len(matches') >= Len(matches)
       /\ \A m \in 1..Len(matches) :
             matches[m].status = FINISHED => matches'[m].status = FINISHED]_vars

\* a match was finalized, a later !resultado loaded it FINISHED with another
\* score and ran to its end, and the match is FINISHED with the later score
C21_Witness ==
    \E s \in Sessions :
        /\ sess[s].cmd = "resultado" /\ sess[s].pc = "done" /\ sess[s].out = "ok"
        /\ sess[s].mold # NoRow /\ sess[s].mold.status = FINISHED
        /\ <<sess[s].mold.goals_home, sess[s].mold.goals_away>> # <<sess[s].h, sess[s].a>>
        /\ matches[sess[s].mid].status = FINISHED
        /\ matches[sess[s].mid].goals_home = sess[s].h
        /\ matches[sess[s].mid].goals_away = sess[s].a

\* C22: every step leaves each stored adjustment in place with the same target
\* user, delta, reason and creation time; a step can only add adjustments at
\* the end of the ledger.
C22_AppendOnly ==
    [][/\ Len(adjustments') >= Len(adjustments)
       /\ \A i \in 1..Len(adjustments) :
             /\ adjustments'[i].user_id = adjustments[i].user_id
             /\ adjustments'[i].points = adjustments[i].points
             /\ adjustments'[i].reason = adjustments[i].reason
             /\ adjustments'[i].created_at = adjustments[i].created_at]_vars

\* a second adjustment for the same user was added at a later time, and the
\* first is still in the ledger with its own creation time
C22_Witness ==
    /\ Len(adjustments) >= 2
    /\ adjustments[1].user_id = adjustments[2].user_id
    /\ adjustments[1].created_at < adjustments[2].created_at
    /\ sess[Worker].cmd = "sancionar" /\ sess[Worker].pc = "done" /\ sess[Worker].out = "ok"

\* C23: the step that applies a successful !pronostico of user u for match m
\* leaves every match, every score adjustment and every prediction of another
\* (user, match) pair as it was; a (u, m) row that existed keeps its points
\* and its classification; a (u, m) row that did not exist is created with
\* the guess of the call, points 0 and classification PENDING.
C23_Frame ==
    [][\A s \in Sessions :
          (sess[s].pc = "p_commit" /\ sess'[s].pc = "done" /\ sess'[s].out = "ok")
              => LET u == sess[s].user
                     m == sess[s].mid
                     old == {r \in predictions : r.user_id = u /\ r.match_id = m}
                     new == {r \in predictions' : r.user_id = u /\ r.match_id = m}
                 IN  /\ matches' = matches
                     /\ adjustments' = adjustments
                     /\ predictions' \ new = predictions \ old
                     /\ Cardinality(new) = 1
                     /\ IF old = {}
                        THEN new = {[user_id |-> u, match_id |-> m,
                                     pred_home |-> sess'[s].h, pred_away |-> sess'[s].a,
                                     points |-> 0, type |-> PENDING]}
                        ELSE {<<r.points, r.type>> : r \in new}
                                = {<<r.points, r.type>> : r \in old}]_vars

\* a !pronostico has replaced the guess of a row that a pass had scored as
\* an exact hit: the row holds the new guess, which is not the result, and
\* still the points and the classification of the hit
C23_Witness ==
    \E s \in Sessions :
        /\ sess[s].cmd = "pronostico" /\ sess[s].pc = "done" /\ sess[s].out = "ok"
        /\ matches[sess[s].mid].status = FINISHED
        /\ \E r \in PredsOf(sess[s].user, sess[s].mid) :
              /\ <<r.pred_home, r.pred_away>> = <<sess[s].h, sess[s].a>>
              /\ <<r.pred_home, r.pred_away>>
                    # <<matches[r.match_id].goals_home, matches[r.match_id].goals_away>>
              /\ r.type = PRIME /\ r.points > 0
====
